---- MODULE Spec2Model ----
(***************************************************************************)
(* Model of modd's process supervision (proc.go): the one-shot command     *)
(* runner RunProc, the prep sequencer RunPreps, the daemon restart loop    *)
(* daemon.Run, daemon.Restart / daemon.Shutdown and the DaemonPen.         *)
(*                                                                         *)
(* The specifications share the variables:                                 *)
(*   SpecPreps  one call of RunPreps over a drawn sequence of commands,    *)
(*              following the calling goroutine;                           *)
(*   SpecStream one command run by RunProc, with the lines its process     *)
(*              writes and the two logOutput goroutines;                   *)
(*   Spec       one goroutine calling a DaemonPen's operations one after   *)
(*              the other, the Run loops of the daemons it started and     *)
(*              their processes;                                           *)
(*   SpecRace   the same with two goroutines calling concurrently;         *)
(*   SpecDaemon one daemon's Run loop statement by statement, with the     *)
(*              clock, and a goroutine calling Restart and Shutdown on it  *)
(*              (SpecDaemonFair: the same under fair scheduling).          *)
(***************************************************************************)
EXTENDS Integers, Sequences, FiniteSets, TLC

\* ------------------------------------------------------------------ bounds
\* Longest prep sequence handed to RunPreps.
MaxPreps == 3
\* Lines a command's process writes to each of its output streams.
MaxLines == 2
\* Daemons constructed by all Start calls together.
MaxDaemons == 2
\* Processes started by the Run loops of all daemons together.
MaxLaunches == 2
\* The same, in the specification with two concurrent callers.
RaceLaunches == 1
\* DaemonPen operations issued by all callers together.
MaxOps == 3
\* Launch attempts of the daemon that is followed step by step.
MaxAttempts == 2
\* Calls of Restart and Shutdown made directly on that daemon.
MaxCalls == 2
\* Clock ticks in one second.
TicksPerSecond == 2

\* ------------------------------------------------------------- one-shots
VARIABLES
    preps,      \* RunPreps' argument: the commands, each named by how it behaves
    ppc,        \* position of the goroutine inside RunPreps / RunProc
    pidx,       \* index (1-based) of the command the range loop is at
    ran,        \* indexes of the commands RunProc was called on, in call order
    perr,       \* RunProc's err variable / return value for the current command
    rets,       \* value returned by each completed RunProc call, in call order
    pret,       \* value returned by RunPreps (NotReturned until it returns)
    plog,       \* lines emitted on the prep log streams, in emission order
    pproc,      \* the current command's OS process: "none", "running", "exited"
    pipes,      \* the current command's stdout and stderr pipes
    spc,        \* position of the two logOutput goroutines of the current command
    sbuf,       \* lines each logOutput's bufio.Reader holds (the head is `line`)
    sunk,       \* arguments of the calls made to log.Say and log.Warn, in call order
    written     \* lines the current command's process wrote to each stream

\* How a command behaves when RunProc runs it.
Outcomes == {"ok", "stdoutPipeErr", "stderrPipeErr", "startErr", "exitErr"}

\* Go's nil error, and the distinct error value command i produces.
Nil == [cmd |-> 0, class |-> "nil"]
NotReturned == [cmd |-> 0, class |-> "pending"]
ErrOf(i, class) == [cmd |-> i, class |-> class]

Line(i, kind) == [stream |-> i, kind |-> kind]

RECURSIVE SeqsUpTo(_, _)
SeqsUpTo(S, n) ==
    IF n = 0 THEN {<<>>}
    ELSE LET shorter == SeqsUpTo(S, n - 1)
         IN  shorter \cup {Append(s, x) : s \in {t \in shorter : Len(t) = n - 1}, x \in S}

Streams == {"stdout", "stderr"}
Sinks == {"Say", "Warn"}
\* A pipe: its unread content and the state of its write and read ends.
NoPipe == [buf |-> <<>>, wr |-> "none", rd |-> "none"]
OpenPipe == [buf |-> <<>>, wr |-> "open", rd |-> "open"]

streamVars == <<pipes, spc, sbuf, sunk, written>>
prepVars == <<preps, ppc, pidx, ran, perr, rets, pret, plog, pproc, streamVars>>

\* -------------------------------------------------------------- DaemonPen
VARIABLES
    pen,        \* dp.daemons: [set |-> FALSE] is the nil pointer, else the slice
    mutex,      \* dp.Mutex: "free" or the caller holding it
    nd,         \* daemon cells handed out so far (slice elements d[i])
    dconf,      \* d.conf of each slice element (NoConf: the zero value)
    dcmd,       \* d.cmd of each slice element (NoPid: nil)
    dstop,      \* d.stop of each slice element
    dpc,        \* position of the goroutine running d.Run ("unborn": not launched)
    dfirst,     \* Run's pending c.Wait() was the first Wait on its Cmd
    launches,   \* processes started so far, all daemons together
    dlaunch,    \* processes started so far by each daemon's Run loop
    procs,      \* the exec.Cmd / OS process of each launch
    cpc,        \* position of each caller goroutine
    cop,        \* the DaemonPen call a caller is making and its arguments
    cslice,     \* Start: the local slice d; Restart/Shutdown: the ranged slice
    ci,         \* loop index of the caller's for loop
    ccopy,      \* the range variable d: a copy of the slice element
    cfirst,     \* Shutdown's pending d.cmd.Wait() was the first Wait on its Cmd
    ctrace,     \* what the call in progress has done so far
    opsDone     \* DaemonPen calls issued so far

Callers == {"c1", "c2"}
DaemonIds == 1..MaxDaemons

\* The zero conf.Daemon (command text and restart signal).
NoConf == [command |-> "", sig |-> ""]
\* The lists handed to Start: k specifications, neighbours differing.
SpecLists(n) ==
    {[i \in 1..k |-> IF i % 2 = 1 THEN [command |-> "a", sig |-> "HUP"]
                                  ELSE [command |-> "b", sig |-> "USR1"]] : k \in 0..n}
\* Signals handed to Shutdown.
ShutdownSignals == {"TERM"}

Pids == DaemonIds \X (1..MaxLaunches)
NoPid == <<0, 0>>
NoProc == [state |-> "none", waited |-> FALSE]
NoOp == [name |-> "", specs |-> <<>>, sig |-> ""]
ZeroDaemon == [conf |-> NoConf, cmd |-> NoPid, stop |-> FALSE]
NilPen == [set |-> FALSE, ds |-> <<>>]

Exited(p) == procs[p].state = "exited"

penVars == <<pen, mutex, nd, dconf, dcmd, dstop, dpc, dfirst, launches, dlaunch,
             procs, cpc, cop, cslice, ci, ccopy, cfirst, ctrace, opsDone>>
daemonVars == <<dconf, dcmd, dstop, dpc, dfirst, launches, dlaunch, procs>>
callerVars == <<cpc, cop, cslice, ci, ccopy, cfirst, ctrace, opsDone>>

\* ------------------------------------------------- one daemon, step by step
\* A single daemon followed through every statement of its Run loop, with
\* the clock, while another goroutine calls Restart and Shutdown on it.
VARIABLES
    tpc,        \* position of the goroutine running d.Run ("unborn": not launched)
    tstop,      \* d.stop
    tcmd,       \* d.cmd: 0 is nil, k the Cmd of the k-th launch attempt
    tprocs,     \* the exec.Cmd / OS process of each launch attempt
    tfirst,     \* Run's pending c.Wait() was the first Wait on its Cmd
    tattempts,  \* launch attempts so far (executions of lastStart = time.Now())
    theaders,   \* header markers the Run loop has logged
    tfails,     \* pipe failures, start failures and failed Waits met so far
    tshouts,    \* calls of d.log.Shout made by the Run loop
    tlast,      \* how the latest finished attempt ended: "none", "ok", "exitErr",
                \* "stdoutPipeErr", "stderrPipeErr", "startErr", "waitErr"
    tsince,     \* clock ticks since lastStart, counted up to MinRestart
    thsince,    \* clock ticks since the latest header marker, up to MinRestart
    tsleep,     \* ticks the pending time.Sleep still has to last
    kpc,        \* position of the goroutine calling Restart / Shutdown
    kop,        \* the call it is making (or made last) and its argument
    kcmd,       \* the Cmd Shutdown's d.cmd.Wait() was called on
    kfirst,     \* Shutdown's pending d.cmd.Wait() was the first Wait on its Cmd
    ktrace,     \* what the latest call has done so far
    kcalls,     \* calls of Restart and Shutdown made so far
    kdown       \* a call of Shutdown has returned

Attempts == 1..MaxAttempts
\* const MinRestart = 1 * time.Second
MinRestart == 1 * TicksPerSecond
\* The daemon's configured restart signal and the signal handed to Shutdown.
OwnRestartSignal == "HUP"
NoCall == [name |-> "", sig |-> ""]

loopVars == <<tpc, tstop, tcmd, tprocs, tfirst, tattempts, theaders, tfails,
              tshouts, tlast, tsince, thsince, tsleep>>
directVars == <<kpc, kop, kcmd, kfirst, ktrace, kcalls, kdown>>
runVars == <<loopVars, directVars>>
vars == <<prepVars, penVars, runVars>>

InitPrepsIdle ==
    /\ preps = <<>>
    /\ ppc = "done"
    /\ pidx = 0
    /\ ran = <<>>
    /\ perr = Nil
    /\ rets = <<>>
    /\ pret = Nil
    /\ plog = <<>>
    /\ pproc = "none"
    /\ pipes = [s \in Streams |-> NoPipe]
    /\ spc = [s \in Streams |-> "unborn"]
    /\ sbuf = [s \in Streams |-> <<>>]
    /\ sunk = [k \in Sinks |-> <<>>]
    /\ written = [s \in Streams |-> <<>>]

InitPrepsCall ==
    /\ preps \in SeqsUpTo(Outcomes, MaxPreps)
    /\ ppc = "loop"
    /\ pidx = 0
    /\ ran = <<>>
    /\ perr = Nil
    /\ rets = <<>>
    /\ pret = NotReturned
    /\ plog = <<>>
    /\ pproc = "none"
    /\ pipes = [s \in Streams |-> NoPipe]
    /\ spc = [s \in Streams |-> "unborn"]
    /\ sbuf = [s \in Streams |-> <<>>]
    /\ sunk = [k \in Sinks |-> <<>>]
    /\ written = [s \in Streams |-> <<>>]

\* Variant: the range loop steps over every other command.
RunPrepsNext_SkipsOne ==
    /\ ppc = "loop"
    /\ IF pidx + 1 >= Len(preps)
       THEN /\ pret' = Nil
            /\ ppc' = "done"
            /\ UNCHANGED <<pidx, ran, pproc>>
       ELSE /\ pidx' = pidx + 2
            /\ ran' = Append(ran, pidx + 2)
            /\ pproc' = "none"
            /\ ppc' = "header"
            /\ UNCHANGED pret
    /\ UNCHANGED <<preps, perr, rets, plog>>
    /\ IF ppc' = "header"
       THEN pipes' = [s \in Streams |-> NoPipe] /\ spc' = [s \in Streams |-> "unborn"]
       ELSE UNCHANGED <<pipes, spc>>
    /\ UNCHANGED <<sbuf, sunk, written>>
    /\ UNCHANGED <<penVars, runVars>>

\* for _, p := range preps { err := RunProc(p.Command, log.Stream(...)) ... }
\* return nil
RunPrepsNext ==
    /\ ppc = "loop"
    /\ IF pidx >= Len(preps)
       THEN /\ pret' = Nil
            /\ ppc' = "done"
            /\ UNCHANGED <<pidx, ran, pproc>>
       ELSE /\ pidx' = pidx + 1
            /\ ran' = Append(ran, pidx + 1)
            /\ pproc' = "none"
            /\ ppc' = "header"
            /\ UNCHANGED pret
    /\ UNCHANGED <<preps, perr, rets, plog>>
    /\ IF ppc' = "header"
       THEN pipes' = [s \in Streams |-> NoPipe] /\ spc' = [s \in Streams |-> "unborn"]
       ELSE UNCHANGED <<pipes, spc>>
    /\ UNCHANGED <<sbuf, sunk, written>>
    /\ UNCHANGED <<penVars, runVars>>

\* log.Header()
RunProcHeader ==
    /\ ppc = "header"
    /\ plog' = Append(plog, Line(pidx, "Header"))
    /\ ppc' = "stdoutPipe"
    /\ UNCHANGED <<preps, pidx, ran, perr, rets, pret, pproc>>
    /\ UNCHANGED streamVars
    /\ UNCHANGED <<penVars, runVars>>

\* stdo, err := c.StdoutPipe(); if err != nil { return err }
RunProcStdoutPipe ==
    /\ ppc = "stdoutPipe"
    /\ IF preps[pidx] = "stdoutPipeErr"
       THEN /\ perr' = ErrOf(pidx, "stdoutPipeErr")
            /\ ppc' = "return"
       ELSE /\ ppc' = "stderrPipe"
            /\ UNCHANGED perr
    /\ UNCHANGED <<preps, pidx, ran, rets, pret, plog, pproc>>
    /\ IF ppc' = "stderrPipe"
       THEN pipes' = [pipes EXCEPT !["stdout"] = OpenPipe]
       ELSE UNCHANGED pipes
    /\ UNCHANGED <<spc, sbuf, sunk, written>>
    /\ UNCHANGED <<penVars, runVars>>

\* stde, err := c.StderrPipe(); if err != nil { return err }
\* go logOutput(stde, log.Warn); go logOutput(stdo, log.Say)
RunProcStderrPipe ==
    /\ ppc = "stderrPipe"
    /\ IF preps[pidx] = "stderrPipeErr"
       THEN /\ perr' = ErrOf(pidx, "stderrPipeErr")
            /\ ppc' = "return"
       ELSE /\ ppc' = "start"
            /\ UNCHANGED perr
    /\ UNCHANGED <<preps, pidx, ran, rets, pret, plog, pproc>>
    /\ IF ppc' = "start"
       THEN /\ pipes' = [pipes EXCEPT !["stderr"] = OpenPipe]
            /\ spc' = [s \in Streams |-> "read"]
       ELSE UNCHANGED <<pipes, spc>>
    /\ UNCHANGED <<sbuf, sunk, written>>
    /\ UNCHANGED <<penVars, runVars>>

\* err = c.Start(); if err != nil { return err }
\* A failed Start closes every descriptor of the Cmd, both pipe ends included;
\* after a successful one the write ends belong to the child alone.
RunProcStart ==
    /\ ppc = "start"
    /\ IF preps[pidx] = "startErr"
       THEN /\ perr' = ErrOf(pidx, "startErr")
            /\ ppc' = "return"
            /\ UNCHANGED pproc
       ELSE /\ pproc' = "running"
            /\ ppc' = "wait"
            /\ UNCHANGED perr
    /\ UNCHANGED <<preps, pidx, ran, rets, pret, plog>>
    /\ IF ppc' = "return"
       THEN pipes' = [s \in Streams |-> [pipes[s] EXCEPT !.wr = "closed", !.rd = "closed"]]
       ELSE UNCHANGED pipes
    /\ UNCHANGED <<spc, sbuf, sunk, written>>
    /\ UNCHANGED <<penVars, runVars>>

\* The command's process terminates (the operating system's step); the write
\* ends of its pipes close with it.
PrepProcExit ==
    /\ pproc = "running"
    /\ pproc' = "exited"
    /\ UNCHANGED <<preps, ppc, pidx, ran, perr, rets, pret, plog>>
    /\ pipes' = [s \in Streams |-> [pipes[s] EXCEPT !.wr = "closed"]]
    /\ UNCHANGED <<spc, sbuf, sunk, written>>
    /\ UNCHANGED <<penVars, runVars>>

\* Variant: Wait returns without the process having exited.
RunProcWait_NoBlock ==
    /\ ppc = "wait"
    /\ IF preps[pidx] = "exitErr"
       THEN /\ perr' = ErrOf(pidx, "exitErr")
            /\ ppc' = "shout"
       ELSE /\ perr' = Nil
            /\ ppc' = "notice"
    /\ UNCHANGED <<preps, pidx, ran, rets, pret, plog, pproc>>
    /\ pipes' = [s \in Streams |-> [pipes[s] EXCEPT !.rd = "closed", !.buf = <<>>]]
    /\ UNCHANGED <<spc, sbuf, sunk, written>>
    /\ UNCHANGED <<penVars, runVars>>

\* err = c.Wait(): blocks until the process has exited, then closes the read
\* ends of the pipes (what was written and not yet read is discarded).
RunProcWait ==
    /\ ppc = "wait"
    /\ pproc = "exited"
    /\ IF preps[pidx] = "exitErr"
       THEN /\ perr' = ErrOf(pidx, "exitErr")
            /\ ppc' = "shout"
       ELSE /\ perr' = Nil
            /\ ppc' = "notice"
    /\ UNCHANGED <<preps, pidx, ran, rets, pret, plog, pproc>>
    /\ pipes' = [s \in Streams |-> [pipes[s] EXCEPT !.rd = "closed", !.buf = <<>>]]
    /\ UNCHANGED <<spc, sbuf, sunk, written>>
    /\ UNCHANGED <<penVars, runVars>>

\* if err != nil { log.Shout("%s", c.ProcessState.String()); return err }
RunProcShout ==
    /\ ppc = "shout"
    /\ plog' = Append(plog, Line(pidx, "Shout"))
    /\ ppc' = "return"
    /\ UNCHANGED <<preps, pidx, ran, perr, rets, pret, pproc>>
    /\ UNCHANGED streamVars
    /\ UNCHANGED <<penVars, runVars>>

\* log.NoticeAs("cmdstats", "run time: %s", ...); return nil
RunProcNotice ==
    /\ ppc = "notice"
    /\ plog' = Append(plog, Line(pidx, "NoticeAs"))
    /\ ppc' = "return"
    /\ UNCHANGED <<preps, pidx, ran, perr, rets, pret, pproc>>
    /\ UNCHANGED streamVars
    /\ UNCHANGED <<penVars, runVars>>

\* Variant: the loop goes on to the next command whatever RunProc returned.
RunPrepsCheck_KeepsGoing ==
    /\ ppc = "return"
    /\ rets' = Append(rets, perr)
    /\ ppc' = "loop"
    /\ UNCHANGED <<preps, pidx, ran, perr, pret, plog, pproc>>
    /\ UNCHANGED streamVars
    /\ UNCHANGED <<penVars, runVars>>

\* RunProc returns err to RunPreps: if err != nil { return err }
RunPrepsCheck ==
    /\ ppc = "return"
    /\ rets' = Append(rets, perr)
    /\ IF perr # Nil
       THEN /\ pret' = perr
            /\ ppc' = "done"
       ELSE /\ ppc' = "loop"
            /\ UNCHANGED pret
    /\ UNCHANGED <<preps, pidx, ran, perr, plog, pproc>>
    /\ UNCHANGED streamVars
    /\ UNCHANGED <<penVars, runVars>>

\* The sink each logOutput goroutine was handed:
\* go logOutput(stde, log.Warn); go logOutput(stdo, log.Say)
SinkOf(s) == IF s = "stderr" THEN "Warn" ELSE "Say"

\* The command's process writes its next line to one of its output streams.
ProcWrite(s) ==
    /\ pproc = "running"
    /\ Len(written[s]) < MaxLines
    /\ LET l == <<s, Len(written[s]) + 1>> IN
       /\ written' = [written EXCEPT ![s] = Append(@, l)]
       /\ pipes' = [pipes EXCEPT ![s].buf = Append(@, l)]
    /\ UNCHANGED <<preps, ppc, pidx, ran, perr, rets, pret, plog, pproc>>
    /\ UNCHANGED <<spc, sbuf, sunk>>
    /\ UNCHANGED <<penVars, runVars>>

\* logOutput: line, _, err := r.ReadLine(); if err != nil { return }
\* The bufio.Reader hands out a line it already holds; otherwise it reads from
\* the pipe whatever is there (one line or several), blocks while the pipe is
\* empty and has a writer, and fails once the read end is closed or the pipe
\* is empty with every write end closed.
LogOutputRead(s) ==
    /\ spc[s] = "read"
    /\ IF sbuf[s] # <<>>
       THEN /\ spc' = [spc EXCEPT ![s] = "out"]
            /\ UNCHANGED <<pipes, sbuf>>
       ELSE IF pipes[s].rd = "closed"
       THEN /\ spc' = [spc EXCEPT ![s] = "done"]
            /\ UNCHANGED <<pipes, sbuf>>
       ELSE IF pipes[s].buf # <<>>
       THEN \E n \in 1..Len(pipes[s].buf) :
               /\ sbuf' = [sbuf EXCEPT ![s] = SubSeq(pipes[s].buf, 1, n)]
               /\ pipes' = [pipes EXCEPT ![s].buf = SubSeq(@, n + 1, Len(@))]
               /\ spc' = [spc EXCEPT ![s] = "out"]
       ELSE /\ pipes[s].wr = "closed"
            /\ spc' = [spc EXCEPT ![s] = "done"]
            /\ UNCHANGED <<pipes, sbuf>>
    /\ UNCHANGED <<preps, ppc, pidx, ran, perr, rets, pret, plog, pproc>>
    /\ UNCHANGED <<sunk, written>>
    /\ UNCHANGED <<penVars, runVars>>

\* logOutput: out(string(line))
LogOutputOut(s) ==
    /\ spc[s] = "out"
    /\ sunk' = [sunk EXCEPT ![SinkOf(s)] = Append(@, Head(sbuf[s]))]
    /\ sbuf' = [sbuf EXCEPT ![s] = Tail(@)]
    /\ spc' = [spc EXCEPT ![s] = "read"]
    /\ UNCHANGED <<preps, ppc, pidx, ran, perr, rets, pret, plog, pproc>>
    /\ UNCHANGED <<pipes, written>>
    /\ UNCHANGED <<penVars, runVars>>

NextPreps ==
    \/ RunPrepsNext
    \/ RunProcHeader
    \/ RunProcStdoutPipe
    \/ RunProcStderrPipe
    \/ RunProcStart
    \/ PrepProcExit
    \/ RunProcWait
    \/ RunProcShout
    \/ RunProcNotice
    \/ RunPrepsCheck

InitPen ==
    /\ pen = NilPen
    /\ mutex = "free"
    /\ nd = 0
    /\ dconf = [d \in DaemonIds |-> NoConf]
    /\ dcmd = [d \in DaemonIds |-> NoPid]
    /\ dstop = [d \in DaemonIds |-> FALSE]
    /\ dpc = [d \in DaemonIds |-> "unborn"]
    /\ dfirst = [d \in DaemonIds |-> FALSE]
    /\ launches = 0
    /\ dlaunch = [d \in DaemonIds |-> 0]
    /\ procs = [p \in Pids |-> NoProc]
    /\ cpc = [c \in Callers |-> "idle"]
    /\ cop = [c \in Callers |-> NoOp]
    /\ cslice = [c \in Callers |-> <<>>]
    /\ ci = [c \in Callers |-> 0]
    /\ ccopy = [c \in Callers |-> ZeroDaemon]
    /\ cfirst = [c \in Callers |-> FALSE]
    /\ ctrace = [c \in Callers |-> <<>>]
    /\ opsDone = 0

\* ------------------------------------------------------------ daemon.Run
\* The Run loop's own log lines (header, shout) are not part of the state of
\* these specifications: they record what DaemonPen calls do (ctrace).

\* The process of daemon d's latest launch (the Run loop's local c).
Cur(d) == <<d, dlaunch[d]>>

\* for d.stop != true { d.log.Header(); throttle sleep; lastStart = time.Now()
\* c := exec.Command(...); c.StdoutPipe(); c.StderrPipe(); go logOutput x 2
\* err = c.Start()
\* A pipe or start failure is shouted and the loop continues at its head.
\* The steps up to c.Start() touch nothing another goroutine reads; the new
\* process becomes visible to others only with d.cmd = c.
RunLoopHead(d, maxLaunches) ==
    /\ dpc[d] = "loop"
    /\ IF dstop[d]
       THEN /\ dpc' = [dpc EXCEPT ![d] = "done"]
            /\ UNCHANGED <<launches, dlaunch, procs>>
       ELSE \E outcome \in {"pipeErr", "startErr", "started"} :
               IF outcome = "started"
               THEN /\ launches < maxLaunches
                    /\ launches' = launches + 1
                    /\ dlaunch' = [dlaunch EXCEPT ![d] = @ + 1]
                    /\ procs' = [procs EXCEPT ![<<d, dlaunch[d] + 1>>].state = "running"]
                    /\ dpc' = [dpc EXCEPT ![d] = "setcmd"]
               ELSE UNCHANGED <<dpc, launches, dlaunch, procs>>
    /\ UNCHANGED <<dconf, dcmd, dstop, dfirst>>
    /\ UNCHANGED <<pen, mutex, nd, callerVars, prepVars, runVars>>

\* d.cmd = c
RunSetCmd(d) ==
    /\ dpc[d] = "setcmd"
    /\ dcmd' = [dcmd EXCEPT ![d] = Cur(d)]
    /\ dpc' = [dpc EXCEPT ![d] = "waitCall"]
    /\ UNCHANGED <<dconf, dstop, dfirst, launches, dlaunch, procs>>
    /\ UNCHANGED <<pen, mutex, nd, callerVars, prepVars, runVars>>

\* exec.Cmd.Wait is not safe for concurrent use.  The first Wait on a Cmd
\* blocks until the process has exited.  A Wait entered after another Wait on
\* the same Cmd has begun is a data race on the Cmd: depending on the build it
\* returns "Wait was already called" at once or blocks on the same process,
\* so a later Wait may return at any moment.
WaitMayReturn(p, first) == Exited(p) \/ ~first

\* err = c.Wait(), entry
RunWaitCall(d) ==
    /\ dpc[d] = "waitCall"
    /\ dfirst' = [dfirst EXCEPT ![d] = ~procs[Cur(d)].waited]
    /\ procs' = [procs EXCEPT ![Cur(d)].waited = TRUE]
    /\ dpc' = [dpc EXCEPT ![d] = "waitRet"]
    /\ UNCHANGED <<dconf, dcmd, dstop, launches, dlaunch>>
    /\ UNCHANGED <<pen, mutex, nd, callerVars, prepVars, runVars>>

\* err = c.Wait(), return; if err != nil { d.log.Shout(...); continue }
RunWaitRet(d) ==
    /\ dpc[d] = "waitRet"
    /\ WaitMayReturn(Cur(d), dfirst[d])
    /\ dpc' = [dpc EXCEPT ![d] = "loop"]
    /\ dfirst' = [dfirst EXCEPT ![d] = FALSE]
    /\ UNCHANGED <<dconf, dcmd, dstop, launches, dlaunch, procs>>
    /\ UNCHANGED <<pen, mutex, nd, callerVars, prepVars, runVars>>

\* A daemon's process terminates (the operating system's step).
ProcExit(p) ==
    /\ procs[p].state = "running"
    /\ procs' = [procs EXCEPT ![p].state = "exited"]
    /\ UNCHANGED <<dconf, dcmd, dstop, dpc, dfirst, launches, dlaunch>>
    /\ UNCHANGED <<pen, mutex, nd, callerVars, prepVars, runVars>>

\* ------------------------------------------------------- DaemonPen callers
Visit(i, h) == [kind |-> "Visit", i |-> i, pid |-> h, sig |-> ""]
Header(i) == [kind |-> "Header", i |-> i, pid |-> NoPid, sig |-> ""]
Signal(i, h, sig) == [kind |-> "Signal", i |-> i, pid |-> h, sig |-> sig]
WaitOn(i, h) == [kind |-> "Wait", i |-> i, pid |-> h, sig |-> ""]

\* The caller goroutines are interchangeable: when both are idle, the next
\* call is attributed to c1.
MayCall(c) == cpc[c] = "idle" /\ (c = "c1" \/ cpc["c1"] # "idle")

\* A caller goroutine calls dp.Start(daemons, log).  The cells of the slice
\* that make() will allocate are named here; they hold zero values until built.
CallStart(c) ==
    /\ MayCall(c)
    /\ opsDone < MaxOps
    /\ \E specs \in SpecLists(MaxDaemons - nd) :
          /\ cop' = [cop EXCEPT ![c] = [name |-> "Start", specs |-> specs, sig |-> ""]]
          /\ cslice' = [cslice EXCEPT ![c] = [i \in 1..Len(specs) |-> nd + i]]
          /\ nd' = nd + Len(specs)
    /\ cpc' = [cpc EXCEPT ![c] = "lock"]
    /\ opsDone' = opsDone + 1
    /\ UNCHANGED <<pen, mutex, ci, ccopy, cfirst, ctrace, daemonVars, prepVars, runVars>>

\* A caller goroutine calls dp.Restart().
CallRestart(c) ==
    /\ MayCall(c)
    /\ opsDone < MaxOps
    /\ cop' = [cop EXCEPT ![c] = [name |-> "Restart", specs |-> <<>>, sig |-> ""]]
    /\ cpc' = [cpc EXCEPT ![c] = "lock"]
    /\ opsDone' = opsDone + 1
    /\ UNCHANGED <<pen, mutex, nd, cslice, ci, ccopy, cfirst, ctrace, daemonVars, prepVars, runVars>>

\* A caller goroutine calls dp.Shutdown(sig).
CallShutdown(c) ==
    /\ MayCall(c)
    /\ opsDone < MaxOps
    /\ \E sig \in ShutdownSignals :
          cop' = [cop EXCEPT ![c] = [name |-> "Shutdown", specs |-> <<>>, sig |-> sig]]
    /\ cpc' = [cpc EXCEPT ![c] = "lock"]
    /\ opsDone' = opsDone + 1
    /\ UNCHANGED <<pen, mutex, nd, cslice, ci, ccopy, cfirst, ctrace, daemonVars, prepVars, runVars>>

\* Variant: Lock does not wait for the holder.
MutexFree_Ignored(c) == TRUE

\* sync.Mutex: Lock blocks while another goroutine holds the mutex.
MutexFree(c) == mutex = "free"

\* Variant: the nil test is missing.
PenHasCollection_Always == TRUE

\* dp.daemons != nil
PenHasCollection == pen.set

\* dp.Lock(), then the top of the body.  Restart and Shutdown test
\* dp.daemons != nil and evaluate the range expression *dp.daemons once.
Lock(c) ==
    /\ cpc[c] = "lock"
    /\ MutexFree(c)
    /\ mutex' = c
    /\ IF cop[c].name = "Start"
       THEN /\ cpc' = [cpc EXCEPT ![c] = "startLoop"]
            /\ UNCHANGED cslice
       ELSE IF PenHasCollection
       THEN /\ cslice' = [cslice EXCEPT ![c] = pen.ds]
            /\ cpc' = [cpc EXCEPT ![c] = IF cop[c].name = "Restart"
                                         THEN "restartRange" ELSE "shutdownRange"]
       ELSE /\ cpc' = [cpc EXCEPT ![c] = "unlock"]
            /\ UNCHANGED cslice
    /\ UNCHANGED <<pen, nd, cop, ci, ccopy, cfirst, ctrace, opsDone>>
    /\ UNCHANGED <<daemonVars, prepVars, runVars>>

\* defer dp.Unlock(), and the call returns.
Unlock(c) ==
    /\ cpc[c] = "unlock"
    /\ mutex' = "free"
    /\ cpc' = [cpc EXCEPT ![c] = "idle"]
    /\ cop' = [cop EXCEPT ![c] = NoOp]
    /\ cslice' = [cslice EXCEPT ![c] = <<>>]
    /\ ci' = [ci EXCEPT ![c] = 0]
    /\ ccopy' = [ccopy EXCEPT ![c] = ZeroDaemon]
    /\ cfirst' = [cfirst EXCEPT ![c] = FALSE]
    /\ ctrace' = [ctrace EXCEPT ![c] = <<>>]
    /\ UNCHANGED <<pen, nd, opsDone, daemonVars, prepVars, runVars>>

\* Variant: the specifications are taken from the end of the list.
StartConf_Reversed(c, i) == cop[c].specs[Len(cop[c].specs) + 1 - i]

\* dmn of the i-th iteration of: for i, dmn := range daemons
StartConf(c, i) == cop[c].specs[i]

\* d := make([]daemon, len(daemons))
\* for i, dmn := range daemons { d[i] = daemon{conf: dmn, log: ...}; go d[i].Run() }
StartLoop(c) ==
    /\ cpc[c] = "startLoop"
    /\ IF ci[c] < Len(cop[c].specs)
       THEN /\ ci' = [ci EXCEPT ![c] = @ + 1]
            /\ dconf' = [dconf EXCEPT ![cslice[c][ci[c] + 1]] = StartConf(c, ci[c] + 1)]
            /\ dpc' = [dpc EXCEPT ![cslice[c][ci[c] + 1]] = "loop"]
            /\ UNCHANGED <<cpc, pen>>
       ELSE /\ cpc' = [cpc EXCEPT ![c] = "startAssign"]
            /\ UNCHANGED <<ci, dconf, dpc, pen>>
    /\ UNCHANGED <<mutex, nd, cop, cslice, ccopy, cfirst, ctrace, opsDone>>
    /\ UNCHANGED <<dcmd, dstop, dfirst, launches, dlaunch, procs, prepVars, runVars>>

\* Variant: Start adds its daemons to the collection the pen already has.
StartAssign_Appends(c) ==
    /\ cpc[c] = "startAssign"
    /\ pen' = [set |-> TRUE, ds |-> pen.ds \o cslice[c]]
    /\ cpc' = [cpc EXCEPT ![c] = "unlock"]
    /\ UNCHANGED <<mutex, nd, cop, cslice, ci, ccopy, cfirst, ctrace, opsDone>>
    /\ UNCHANGED <<daemonVars, prepVars, runVars>>

\* dp.daemons = &d
StartAssign(c) ==
    /\ cpc[c] = "startAssign"
    /\ pen' = [set |-> TRUE, ds |-> cslice[c]]
    /\ cpc' = [cpc EXCEPT ![c] = "unlock"]
    /\ UNCHANGED <<mutex, nd, cop, cslice, ci, ccopy, cfirst, ctrace, opsDone>>
    /\ UNCHANGED <<daemonVars, prepVars, runVars>>

\* The range loop's next iteration: the range variable d receives a copy of
\* the slice element (its conf, log, cmd and stop fields as they are now).
PenRange(c) ==
    /\ cpc[c] \in {"restartRange", "shutdownRange"}
    /\ IF ci[c] < Len(cslice[c])
       THEN LET d == cslice[c][ci[c] + 1] IN
            /\ ci' = [ci EXCEPT ![c] = @ + 1]
            /\ ccopy' = [ccopy EXCEPT ![c] =
                            [conf |-> dconf[d], cmd |-> dcmd[d], stop |-> dstop[d]]]
            /\ ctrace' = [ctrace EXCEPT ![c] = Append(@, Visit(ci[c] + 1, dcmd[d]))]
            /\ cpc' = [cpc EXCEPT ![c] = IF cpc[c] = "restartRange"
                                         THEN "restart" ELSE "shutdown"]
       ELSE /\ cpc' = [cpc EXCEPT ![c] = "unlock"]
            /\ UNCHANGED <<ci, ccopy, ctrace>>
    /\ UNCHANGED <<pen, mutex, nd, cop, cslice, cfirst, opsDone>>
    /\ UNCHANGED <<daemonVars, prepVars, runVars>>

\* Variant: Restart sends the shutdown signal.
RestartSignalOf_Shutdown(c) == "TERM"

\* d.conf.RestartSignal
RestartSignalOf(c) == ccopy[c].conf.sig

\* d.Restart(): if d.cmd != nil { d.log.Header(); d.cmd.Process.Signal(d.conf.RestartSignal) }
DaemonRestart(c) ==
    /\ cpc[c] = "restart"
    /\ IF ccopy[c].cmd # NoPid
       THEN ctrace' = [ctrace EXCEPT ![c] =
                           @ \o <<Header(ci[c]),
                                  Signal(ci[c], ccopy[c].cmd, RestartSignalOf(c))>>]
       ELSE UNCHANGED ctrace
    /\ cpc' = [cpc EXCEPT ![c] = "restartRange"]
    /\ UNCHANGED <<pen, mutex, nd, cop, cslice, ci, ccopy, cfirst, opsDone>>
    /\ UNCHANGED <<daemonVars, prepVars, runVars>>

\* d.Shutdown(sig): d.stop = true; if d.cmd != nil { d.cmd.Process.Signal(sig)
\* (d is the range variable, so the flag is set on the copy)
DaemonShutdown(c) ==
    /\ cpc[c] = "shutdown"
    /\ ccopy' = [ccopy EXCEPT ![c].stop = TRUE]
    /\ IF ccopy[c].cmd # NoPid
       THEN /\ ctrace' = [ctrace EXCEPT ![c] =
                             Append(@, Signal(ci[c], ccopy[c].cmd, cop[c].sig))]
            /\ cpc' = [cpc EXCEPT ![c] = "shutdownWaitCall"]
       ELSE /\ cpc' = [cpc EXCEPT ![c] = "shutdownRange"]
            /\ UNCHANGED ctrace
    /\ UNCHANGED <<pen, mutex, nd, cop, cslice, ci, cfirst, opsDone>>
    /\ UNCHANGED <<daemonVars, prepVars, runVars>>

\* d.cmd.Wait(), entry
DaemonShutdownWaitCall(c) ==
    /\ cpc[c] = "shutdownWaitCall"
    /\ cfirst' = [cfirst EXCEPT ![c] = ~procs[ccopy[c].cmd].waited]
    /\ procs' = [procs EXCEPT ![ccopy[c].cmd].waited = TRUE]
    /\ ctrace' = [ctrace EXCEPT ![c] = Append(@, WaitOn(ci[c], ccopy[c].cmd))]
    /\ cpc' = [cpc EXCEPT ![c] = "shutdownWaitRet"]
    /\ UNCHANGED <<pen, mutex, nd, cop, cslice, ci, ccopy, opsDone>>
    /\ UNCHANGED <<dconf, dcmd, dstop, dpc, dfirst, launches, dlaunch, prepVars, runVars>>

\* d.cmd.Wait(), return
DaemonShutdownWaitRet(c) ==
    /\ cpc[c] = "shutdownWaitRet"
    /\ WaitMayReturn(ccopy[c].cmd, cfirst[c])
    /\ cpc' = [cpc EXCEPT ![c] = "shutdownRange"]
    /\ UNCHANGED <<pen, mutex, nd, cop, cslice, ci, ccopy, cfirst, ctrace, opsDone>>
    /\ UNCHANGED <<daemonVars, prepVars, runVars>>

\* ------------------------------------------------- daemon.Run, with the clock
\* No daemon is followed step by step.
InitRunIdle ==
    /\ tpc = "unborn"
    /\ tstop = FALSE
    /\ tcmd = 0
    /\ tprocs = [k \in Attempts |-> NoProc]
    /\ tfirst = FALSE
    /\ tattempts = 0
    /\ theaders = 0
    /\ tfails = 0
    /\ tshouts = 0
    /\ tlast = "none"
    /\ tsince = MinRestart
    /\ thsince = MinRestart
    /\ tsleep = 0
    /\ kpc = "idle"
    /\ kop = NoCall
    /\ kcmd = 0
    /\ kfirst = FALSE
    /\ ktrace = <<>>
    /\ kcalls = 0
    /\ kdown = FALSE

\* d[i] = daemon{conf: dmn, log: ...}; go d[i].Run()
\* The fields not named are zero: cmd nil, stop false.  Run's lastStart is the
\* zero time, further back than MinRestart.
InitRun ==
    /\ tpc = "loop"
    /\ tstop = FALSE
    /\ tcmd = 0
    /\ tprocs = [k \in Attempts |-> NoProc]
    /\ tfirst = FALSE
    /\ tattempts = 0
    /\ theaders = 0
    /\ tfails = 0
    /\ tshouts = 0
    /\ tlast = "none"
    /\ tsince = MinRestart
    /\ thsince = MinRestart
    /\ tsleep = 0
    /\ kpc = "idle"
    /\ kop = NoCall
    /\ kcmd = 0
    /\ kfirst = FALSE
    /\ ktrace = <<>>
    /\ kcalls = 0
    /\ kdown = FALSE

\* Variant: the loop never sees the stop flag.
StopObserved_Never == FALSE

\* for d.stop != true
StopObserved == tstop

\* for d.stop != true { d.log.Header()
LoopCheck ==
    /\ tpc = "loop"
    /\ IF StopObserved
       THEN /\ tpc' = "done"
            /\ UNCHANGED <<theaders, thsince>>
       ELSE /\ theaders' = theaders + 1
            /\ thsince' = 0
            /\ tpc' = "since"
    /\ UNCHANGED <<tstop, tcmd, tprocs, tfirst, tattempts, tfails, tshouts, tlast,
                   tsince, tsleep>>
    /\ UNCHANGED <<directVars, prepVars, penVars>>

\* Variant: the loop does not sleep.
SleepFor_Nothing(since) == 0

\* if since < MinRestart { time.Sleep(MinRestart - since) }
SleepFor(since) == IF since < MinRestart THEN MinRestart - since ELSE 0

\* since := time.Now().Sub(lastStart); if since < MinRestart { time.Sleep(...
LoopSince ==
    /\ tpc = "since"
    /\ tsleep' = SleepFor(tsince)
    /\ tpc' = IF SleepFor(tsince) > 0 THEN "sleep" ELSE "mark"
    /\ UNCHANGED <<tstop, tcmd, tprocs, tfirst, tattempts, theaders, tfails, tshouts,
                   tlast, tsince, thsince>>
    /\ UNCHANGED <<directVars, prepVars, penVars>>

\* time.Sleep returns once the duration has passed.
LoopWake ==
    /\ tpc = "sleep"
    /\ tsleep = 0
    /\ tpc' = "mark"
    /\ UNCHANGED <<tstop, tcmd, tprocs, tfirst, tattempts, theaders, tfails, tshouts,
                   tlast, tsince, thsince, tsleep>>
    /\ UNCHANGED <<directVars, prepVars, penVars>>

\* lastStart = time.Now(); sh := getShell(); c := exec.Command(sh, "-c", ...)
LoopMark ==
    /\ tpc = "mark"
    /\ tattempts < MaxAttempts
    /\ tattempts' = tattempts + 1
    /\ tsince' = 0
    /\ tpc' = "stdoutPipe"
    /\ UNCHANGED <<tstop, tcmd, tprocs, tfirst, theaders, tfails, tshouts, tlast,
                   thsince, tsleep>>
    /\ UNCHANGED <<directVars, prepVars, penVars>>

\* stdo, err := c.StdoutPipe(); if err != nil { d.log.Shout("%s", err); continue }
LoopStdoutPipe ==
    /\ tpc = "stdoutPipe"
    /\ \E ok \in BOOLEAN :
          IF ok
          THEN /\ tpc' = "stderrPipe"
               /\ UNCHANGED <<tfails, tlast>>
          ELSE /\ tpc' = "shout"
               /\ tfails' = tfails + 1
               /\ tlast' = "stdoutPipeErr"
    /\ UNCHANGED <<tstop, tcmd, tprocs, tfirst, tattempts, theaders, tshouts,
                   tsince, thsince, tsleep>>
    /\ UNCHANGED <<directVars, prepVars, penVars>>

\* stde, err := c.StderrPipe(); if err != nil { d.log.Shout("%s", err); continue }
\* go logOutput(stde, d.log.Warn); go logOutput(stdo, d.log.Say)
LoopStderrPipe ==
    /\ tpc = "stderrPipe"
    /\ \E ok \in BOOLEAN :
          IF ok
          THEN /\ tpc' = "start"
               /\ UNCHANGED <<tfails, tlast>>
          ELSE /\ tpc' = "shout"
               /\ tfails' = tfails + 1
               /\ tlast' = "stderrPipeErr"
    /\ UNCHANGED <<tstop, tcmd, tprocs, tfirst, tattempts, theaders, tshouts,
                   tsince, thsince, tsleep>>
    /\ UNCHANGED <<directVars, prepVars, penVars>>

\* err = c.Start(); if err != nil { d.log.Shout("%s", err); continue }
LoopStart ==
    /\ tpc = "start"
    /\ \E ok \in BOOLEAN :
          IF ok
          THEN /\ tprocs' = [tprocs EXCEPT ![tattempts].state = "running"]
               /\ tpc' = "setcmd"
               /\ UNCHANGED <<tfails, tlast>>
          ELSE /\ tpc' = "shout"
               /\ tfails' = tfails + 1
               /\ tlast' = "startErr"
               /\ UNCHANGED tprocs
    /\ UNCHANGED <<tstop, tcmd, tfirst, tattempts, theaders, tshouts, tsince,
                   thsince, tsleep>>
    /\ UNCHANGED <<directVars, prepVars, penVars>>

\* d.cmd = c
LoopSetCmd ==
    /\ tpc = "setcmd"
    /\ tcmd' = tattempts
    /\ tpc' = "waitCall"
    /\ UNCHANGED <<tstop, tprocs, tfirst, tattempts, theaders, tfails, tshouts, tlast,
                   tsince, thsince, tsleep>>
    /\ UNCHANGED <<directVars, prepVars, penVars>>

\* A Wait may return: see WaitMayReturn.
OwnWaitMayReturn(k, first) == tprocs[k].state = "exited" \/ ~first

\* err = c.Wait(), entry
LoopWaitCall ==
    /\ tpc = "waitCall"
    /\ tfirst' = ~tprocs[tattempts].waited
    /\ tprocs' = [tprocs EXCEPT ![tattempts].waited = TRUE]
    /\ tpc' = "waitRet"
    /\ UNCHANGED <<tstop, tcmd, tattempts, theaders, tfails, tshouts, tlast, tsince,
                   thsince, tsleep>>
    /\ UNCHANGED <<directVars, prepVars, penVars>>

\* err = c.Wait(), return; if err != nil { d.log.Shout(...); continue }
\* The first Wait reports the exit status; a later Wait on the same Cmd
\* returns an error.
LoopWaitRet ==
    /\ tpc = "waitRet"
    /\ OwnWaitMayReturn(tattempts, tfirst)
    /\ \E end \in {"ok", "exitErr", "waitErr"} :
          /\ end = "waitErr" <=> ~tfirst
          /\ tlast' = end
          /\ IF end = "ok"
             THEN tpc' = "loop" /\ UNCHANGED tfails
             ELSE tpc' = "shout" /\ tfails' = tfails + 1
    /\ tfirst' = FALSE
    /\ UNCHANGED <<tstop, tcmd, tprocs, tattempts, theaders, tshouts, tsince, thsince,
                   tsleep>>
    /\ UNCHANGED <<directVars, prepVars, penVars>>

\* Variant: the loop gives up after a failure.
LoopShout_GivesUp ==
    /\ tpc = "shout"
    /\ tshouts' = tshouts + 1
    /\ tpc' = "done"
    /\ UNCHANGED <<tstop, tcmd, tprocs, tfirst, tattempts, theaders, tfails, tlast,
                   tsince, thsince, tsleep>>
    /\ UNCHANGED <<directVars, prepVars, penVars>>

\* d.log.Shout("%s", ...); continue
LoopShout ==
    /\ tpc = "shout"
    /\ tshouts' = tshouts + 1
    /\ tpc' = "loop"
    /\ UNCHANGED <<tstop, tcmd, tprocs, tfirst, tattempts, theaders, tfails, tlast,
                   tsince, thsince, tsleep>>
    /\ UNCHANGED <<directVars, prepVars, penVars>>

\* The daemon's process terminates (the operating system's step).
OwnProcExit(k) ==
    /\ tprocs[k].state = "running"
    /\ tprocs' = [tprocs EXCEPT ![k].state = "exited"]
    /\ UNCHANGED <<tpc, tstop, tcmd, tfirst, tattempts, theaders, tfails, tshouts,
                   tlast, tsince, thsince, tsleep>>
    /\ UNCHANGED <<directVars, prepVars, penVars>>

\* The clock advances by one tick.
Tick ==
    /\ tpc # "unborn"
    /\ tsince' = IF tsince < MinRestart THEN tsince + 1 ELSE tsince
    /\ thsince' = IF thsince < MinRestart THEN thsince + 1 ELSE thsince
    /\ tsleep' = IF tsleep > 0 THEN tsleep - 1 ELSE 0
    /\ UNCHANGED <<tpc, tstop, tcmd, tprocs, tfirst, tattempts, theaders, tfails,
                   tshouts, tlast>>
    /\ UNCHANGED <<directVars, prepVars, penVars>>

LoopStep ==
    \/ LoopCheck
    \/ LoopSince
    \/ LoopWake
    \/ LoopMark
    \/ LoopStdoutPipe
    \/ LoopStderrPipe
    \/ LoopStart
    \/ LoopSetCmd
    \/ LoopWaitCall
    \/ LoopWaitRet
    \/ LoopShout

\* ------------------------------------- Restart and Shutdown on that daemon
\* The calls are made on the daemon the Run loop runs on (pointer receiver).
OwnHeader == [kind |-> "Header", cmd |-> 0, sig |-> ""]
OwnSignal(k, sig) == [kind |-> "Signal", cmd |-> k, sig |-> sig]
OwnWait(k) == [kind |-> "Wait", cmd |-> k, sig |-> ""]

\* A goroutine calls d.Restart(): if d.cmd != nil {
DirectRestart ==
    /\ kpc = "idle"
    /\ tpc # "unborn"
    /\ kcalls < MaxCalls
    /\ kcalls' = kcalls + 1
    /\ kop' = [name |-> "Restart", sig |-> ""]
    /\ ktrace' = <<>>
    /\ kpc' = IF tcmd # 0 THEN "restartHeader" ELSE "idle"
    /\ UNCHANGED <<kcmd, kfirst, kdown>>
    /\ UNCHANGED <<loopVars, prepVars, penVars>>

\* d.log.Header()
RestartHeader ==
    /\ kpc = "restartHeader"
    /\ ktrace' = Append(ktrace, OwnHeader)
    /\ kpc' = "restartSignal"
    /\ UNCHANGED <<kop, kcmd, kfirst, kcalls, kdown>>
    /\ UNCHANGED <<loopVars, prepVars, penVars>>

\* d.cmd.Process.Signal(d.conf.RestartSignal), and Restart returns
RestartSignal ==
    /\ kpc = "restartSignal"
    /\ ktrace' = Append(ktrace, OwnSignal(tcmd, OwnRestartSignal))
    /\ kpc' = "idle"
    /\ UNCHANGED <<kop, kcmd, kfirst, kcalls, kdown>>
    /\ UNCHANGED <<loopVars, prepVars, penVars>>

\* A goroutine calls d.Shutdown(sig): d.stop = true
DirectShutdown ==
    /\ kpc = "idle"
    /\ tpc # "unborn"
    /\ kcalls < MaxCalls
    /\ kcalls' = kcalls + 1
    /\ \E sig \in ShutdownSignals :
          kop' = [name |-> "Shutdown", sig |-> sig]
    /\ ktrace' = <<>>
    /\ tstop' = TRUE
    /\ kpc' = "shutTest"
    /\ UNCHANGED <<kcmd, kfirst, kdown>>
    /\ UNCHANGED <<tpc, tcmd, tprocs, tfirst, tattempts, theaders, tfails, tshouts,
                   tlast, tsince, thsince, tsleep>>
    /\ UNCHANGED <<prepVars, penVars>>

\* if d.cmd != nil { ... } and, with no Cmd held, Shutdown returns
ShutdownTest ==
    /\ kpc = "shutTest"
    /\ IF tcmd # 0
       THEN kpc' = "shutSignal" /\ UNCHANGED kdown
       ELSE kpc' = "idle" /\ kdown' = TRUE
    /\ UNCHANGED <<kop, kcmd, kfirst, ktrace, kcalls>>
    /\ UNCHANGED <<loopVars, prepVars, penVars>>

\* d.cmd.Process.Signal(sig)
ShutdownSignal ==
    /\ kpc = "shutSignal"
    /\ ktrace' = Append(ktrace, OwnSignal(tcmd, kop.sig))
    /\ kpc' = "shutWaitCall"
    /\ UNCHANGED <<kop, kcmd, kfirst, kcalls, kdown>>
    /\ UNCHANGED <<loopVars, prepVars, penVars>>

\* d.cmd.Wait(), entry
ShutdownWaitCall ==
    /\ kpc = "shutWaitCall"
    /\ kcmd' = tcmd
    /\ kfirst' = ~tprocs[tcmd].waited
    /\ tprocs' = [tprocs EXCEPT ![tcmd].waited = TRUE]
    /\ ktrace' = Append(ktrace, OwnWait(tcmd))
    /\ kpc' = "shutWaitRet"
    /\ UNCHANGED <<kop, kcalls, kdown>>
    /\ UNCHANGED <<tpc, tstop, tcmd, tfirst, tattempts, theaders, tfails, tshouts,
                   tlast, tsince, thsince, tsleep>>
    /\ UNCHANGED <<prepVars, penVars>>

\* d.cmd.Wait(), return, and Shutdown returns
ShutdownWaitRet ==
    /\ kpc = "shutWaitRet"
    /\ OwnWaitMayReturn(kcmd, kfirst)
    /\ kpc' = "idle"
    /\ kdown' = TRUE
    /\ UNCHANGED <<kop, kcmd, kfirst, ktrace, kcalls>>
    /\ UNCHANGED <<loopVars, prepVars, penVars>>

DirectStep ==
    \/ DirectRestart
    \/ RestartHeader
    \/ RestartSignal
    \/ DirectShutdown
    \/ ShutdownTest
    \/ ShutdownSignal
    \/ ShutdownWaitCall
    \/ ShutdownWaitRet

\* --------------------------------------------------------- specifications
Init == InitPrepsIdle /\ InitPen /\ InitRunIdle

CallerStep(c) ==
    \/ CallStart(c)
    \/ CallRestart(c)
    \/ CallShutdown(c)
    \/ Lock(c)
    \/ Unlock(c)
    \/ StartLoop(c)
    \/ StartAssign(c)
    \/ PenRange(c)
    \/ DaemonRestart(c)
    \/ DaemonShutdown(c)
    \/ DaemonShutdownWaitCall(c)
    \/ DaemonShutdownWaitRet(c)

DaemonStep(d, maxLaunches) ==
    \/ RunLoopHead(d, maxLaunches)
    \/ RunSetCmd(d)
    \/ RunWaitCall(d)
    \/ RunWaitRet(d)

Next ==
    \/ CallerStep("c1")
    \/ \E d \in DaemonIds : DaemonStep(d, MaxLaunches)
    \/ \E p \in Pids : ProcExit(p)

Spec == Init /\ [][Next]_vars

NextRace ==
    \/ \E c \in Callers : CallerStep(c)
    \/ \E d \in DaemonIds : DaemonStep(d, RaceLaunches)
    \/ \E p \in Pids : ProcExit(p)

SpecRace == Init /\ [][NextRace]_vars

InitPreps == InitPrepsCall /\ InitPen /\ InitRunIdle

SpecPreps == InitPreps /\ [][NextPreps]_vars

\* One command run by RunProc, followed together with its process's output
\* and its two logOutput goroutines.
InitStream == InitPreps /\ Len(preps) = 1

NextStream ==
    \/ NextPreps
    \/ \E s \in Streams : ProcWrite(s)
    \/ \E s \in Streams : LogOutputRead(s)
    \/ \E s \in Streams : LogOutputOut(s)

SpecStream == InitStream /\ [][NextStream]_vars

\* One daemon whose Run loop was just launched, its processes, the clock, and
\* a goroutine calling Restart and Shutdown on it.
InitDaemon == InitPrepsIdle /\ InitPen /\ InitRun

NextDaemon ==
    \/ LoopStep
    \/ \E k \in Attempts : OwnProcExit(k)
    \/ Tick
    \/ DirectStep

SpecDaemon == InitDaemon /\ [][NextDaemon]_vars

\* The Go scheduler runs every runnable goroutine and the clock advances.
SpecDaemonFair == SpecDaemon /\ WF_vars(LoopStep) /\ WF_vars(Tick)

\* ================================================================ claims
\* Lines of kind `kind` emitted so far on the log stream of command i.
Count(i, kind) ==
    Cardinality({k \in 1..Len(plog) : plog[k] = Line(i, kind)})

\* The first line emitted on the log stream of command i (none: a blank line).
FirstLine(i) ==
    LET ks == {k \in 1..Len(plog) : plog[k].stream = i}
    IN  IF ks = {} THEN Line(i, "")
        ELSE plog[CHOOSE k \in ks : \A j \in ks : k <= j]

AllSucceed == \A i \in 1..Len(preps) : preps[i] = "ok"

\* C1: RunPreps short-circuits on the first failure.  Once RunProc has
\* returned an error for command N, RunPreps has returned exactly that error,
\* commands 1..N are the only ones RunProc was ever called on, and this stays
\* so in every later state.
C1_ShortCircuit ==
    \A n \in 1..Len(rets) :
        rets[n] # Nil =>
            /\ rets[n] = ErrOf(n, preps[n])
            /\ ran = [i \in 1..n |-> i]
            /\ ppc = "done"
            /\ pret = rets[n]

\* C1 witness: the second of three commands failed and RunPreps has returned.
C1_Witness ==
    /\ Len(preps) = 3
    /\ Len(rets) = 2
    /\ rets[2] # Nil
    /\ ppc = "done"

C8_NilResult ==
    ppc = "done" =>
        /\ pret = Nil <=> AllSucceed
        /\ pret = Nil =>
              /\ ran = [i \in 1..Len(preps) |-> i]
              /\ rets = [i \in 1..Len(preps) |-> Nil]

C8_OneAtATime ==
    /\ Len(ran) \in {Len(rets), Len(rets) + 1}
    /\ \A k \in 1..Len(ran) : ran[k] = k
    /\ ppc \in {"loop", "done"} => pproc # "running" /\ Len(ran) = Len(rets)

\* C8: RunPreps returns nil exactly when no command of the sequence fails;
\* then every command was run exactly once, in list order (none for the empty
\* sequence), and a command is begun only when the process of the one before
\* it is no longer running.
C8_NilIffAllSucceed == C8_NilResult /\ C8_OneAtATime

\* C8 witness: a sequence of three commands that all succeeded.
C8_Witness ==
    /\ ppc = "done"
    /\ pret = Nil
    /\ Len(preps) = 3
    /\ Len(ran) = 3

\* C9: RunProc emits the header first, does not get past Wait while the process
\* runs, and returns nil exactly for a command whose pipes, start and exit all
\* succeed, with one timing line and no shout; otherwise it returns that
\* command's pipe, start or exit error and no timing line.
C9_RunProcResult ==
    /\ \A i \in 1..Len(ran) :
          IF ppc = "header" /\ pidx = i
          THEN FirstLine(i) = Line(i, "")
          ELSE FirstLine(i) = Line(i, "Header")
    /\ ppc \in {"shout", "notice", "return"} => pproc # "running"
    /\ \A n \in 1..Len(rets) :
          /\ rets[n] = Nil <=> preps[n] = "ok"
          /\ rets[n] = Nil => Count(n, "NoticeAs") = 1 /\ Count(n, "Shout") = 0
          /\ rets[n] # Nil => rets[n] = ErrOf(n, preps[n]) /\ Count(n, "NoticeAs") = 0

\* C9 witness: one call returned nil and the next returned an exit error.
C9_Witness ==
    /\ Len(rets) = 2
    /\ rets[1] = Nil
    /\ rets[2] = ErrOf(2, "exitErr")

\* C10: every failure class of a one-shot command (pipe set-up, start,
\* abnormal exit) is shouted before RunProc returns its error.
C10_AllFailuresShouted ==
    \A n \in 1..Len(rets) : rets[n] # Nil => Count(n, "Shout") >= 1


\* A caller is inside the body of its DaemonPen call (between Lock and Unlock).
InBody(c) == cpc[c] \notin {"idle", "lock"}

\* A caller has finished the body of its call `name` and is about to return.
Returning(c, name) == cpc[c] = "unlock" /\ cop[c].name = name

\* Slice element d has been assigned its daemon and its Run loop was launched.
Constructed(d) == dconf[d] # NoConf /\ dpc[d] # "unborn"

\* C2: when DaemonPen.Shutdown returns, every daemon of the pen's collection
\* has its stop flag set.
C2_ShutdownSetsStop ==
    \A c \in Callers :
        Returning(c, "Shutdown") =>
            \A i \in 1..Len(pen.ds) : dstop[pen.ds[i]]

\* C3: when DaemonPen.Shutdown returns, every process it signalled (the
\* process a daemon held when Shutdown reached it) has exited.
C3_ShutdownWaitsForExit ==
    \A c \in Callers :
        Returning(c, "Shutdown") =>
            \A k \in 1..Len(ctrace[c]) :
                ctrace[c][k].kind = "Signal" => Exited(ctrace[c][k].pid)

\* C4: when DaemonPen.Start(specs) is about to return, the pen's collection
\* is K = Len(specs) distinct daemons, the i-th carrying the i-th
\* specification, each with its Run loop launched; no other cell was built.
C4_StartBuildsCollection ==
    \A c \in Callers :
        Returning(c, "Start") =>
            LET specs == cop[c].specs IN
            /\ pen.set
            /\ Len(pen.ds) = Len(specs)
            /\ \A i, j \in 1..Len(specs) : i # j => pen.ds[i] # pen.ds[j]
            /\ \A i \in 1..Len(specs) :
                  /\ dconf[pen.ds[i]] = specs[i]
                  /\ dpc[pen.ds[i]] # "unborn"
            /\ \A d \in DaemonIds : d > nd => ~Constructed(d)

\* C4 witness: a Start with two specifications is about to return.
C4_Witness ==
    /\ Returning("c1", "Start")
    /\ Len(cop["c1"].specs) = 2

\* C5: at most one caller is inside a DaemonPen body, and it holds the mutex;
\* a ranging Restart or Shutdown ranges over the pen's collection, all of
\* whose daemons are constructed, as are those of any collection the pen has.
C5_MutualExclusion ==
    /\ \A c, e \in Callers : InBody(c) /\ InBody(e) => c = e
    /\ \A c \in Callers : InBody(c) <=> mutex = c
    /\ \A c \in Callers :
          InBody(c) /\ cop[c].name \in {"Restart", "Shutdown"} /\ pen.set =>
              /\ cslice[c] = pen.ds
              /\ \A i \in 1..Len(cslice[c]) : Constructed(cslice[c][i])
    /\ pen.set => \A i \in 1..Len(pen.ds) : Constructed(pen.ds[i])

\* C5 witness: c1's Shutdown is blocked waiting for a running process while
\* c2 has issued a Restart or a Start and waits for the mutex.
C5_Witness ==
    /\ cpc["c1"] = "shutdownWaitRet"
    /\ ~WaitMayReturn(ccopy["c1"].cmd, cfirst["c1"])
    /\ cpc["c2"] = "lock"
    /\ cop["c2"].name \in {"Restart", "Start"}

IsVisit(e) == e.kind = "Visit"

\* What Restart must do for the daemons it visited: for each one that held a
\* process, a header and that daemon's restart signal to that process.
RECURSIVE RestartEffects(_, _)
RestartEffects(vs, c) ==
    IF vs = <<>> THEN <<>>
    ELSE LET v == Head(vs) IN
         <<v>>
         \o (IF v.pid # NoPid
             THEN <<Header(v.i), Signal(v.i, v.pid, dconf[cslice[c][v.i]].sig)>>
             ELSE <<>>)
         \o RestartEffects(Tail(vs), c)

C6_RestartTrace ==
    \A c \in Callers :
        Returning(c, "Restart") /\ pen.set =>
            LET vs == SelectSeq(ctrace[c], IsVisit) IN
            /\ Len(vs) = Len(pen.ds)
            /\ \A k \in 1..Len(vs) : vs[k].i = k
            /\ ctrace[c] = RestartEffects(vs, c)

C6_RestartFrame ==
    \A c \in Callers :
        cop[c].name = "Restart" /\ InBody(c) /\ (cpc'[c] # cpc[c] \/ ci'[c] # ci[c]) =>
            UNCHANGED <<dstop, dcmd, dconf, dpc, procs>>

\* C6: DaemonPen.Restart visits every daemon of the collection once, in
\* order; each one holding a process gets one header and one delivery of its
\* own restart signal to that process; no step of Restart waits on a process
\* or changes a daemon's stop flag, process handle or process.
C6_RestartSignalsEach == []C6_RestartTrace /\ [][C6_RestartFrame]_vars

\* C6 witness: a Restart is about to return having signalled two daemons with
\* their different restart signals, the first process still running.
C6_Witness ==
    /\ Returning("c1", "Restart")
    /\ Len(ctrace["c1"]) = 6
    /\ ctrace["c1"][3].sig = "HUP"
    /\ ctrace["c1"][6].sig = "USR1"
    /\ ~Exited(ctrace["c1"][3].pid)

C7_NoCollectionState ==
    \A c \in Callers :
        cop[c].name \in {"Restart", "Shutdown"} /\ InBody(c) /\ ~pen.set =>
            /\ cpc[c] = "unlock"
            /\ ctrace[c] = <<>>
            /\ ci[c] = 0

C7_NoCollectionStep ==
    \A c \in Callers :
        cop[c].name \in {"Restart", "Shutdown"} /\ ~pen.set /\ cpc'[c] # cpc[c] =>
            \/ cpc[c] = "lock" /\ cpc'[c] = "unlock" /\ UNCHANGED <<pen, ctrace, daemonVars>>
            \/ /\ cpc[c] = "unlock" /\ cpc'[c] = "idle" /\ mutex' = "free"
               /\ UNCHANGED <<pen, daemonVars>>

\* C7: while the pen has no collection, Restart and Shutdown go from taking
\* the mutex straight to returning: no daemon visited, no signal, no header,
\* the pen still without a collection, the mutex released on return.
C7_NoCollectionNoOp == []C7_NoCollectionState /\ [][C7_NoCollectionStep]_vars

\* C7 witness: a Shutdown on a pen without a collection is about to return.
C7_Witness ==
    /\ Returning("c1", "Shutdown")
    /\ ~pen.set
    /\ nd = 0

\* The processes of daemon d that are running.
LiveProcs(d) == {p \in Pids : p[1] = d /\ procs[p].state = "running"}

\* C17: at every reachable state each daemon has at most one running process:
\* Run starts a new process only after the one before it has exited.
C17_OneLiveProcess ==
    \A d \in DaemonIds : Cardinality(LiveProcs(d)) <= 1

\* The daemons of a slice.
Members(ds) == {ds[i] : i \in 1..Len(ds)}

\* What a ranging Restart or Shutdown has done so far concerns only daemons of
\* the pen's collection; a daemon outside it is neither stopped nor finished.
C20_OnlyLatestSet ==
    /\ \A c \in Callers :
          InBody(c) /\ cop[c].name \in {"Restart", "Shutdown"} =>
              /\ cslice[c] = pen.ds
              /\ \A k \in 1..Len(ctrace[c]) :
                    LET e == ctrace[c][k] IN
                    /\ e.i \in 1..Len(pen.ds)
                    /\ e.kind \in {"Signal", "Wait"} => e.pid[1] = pen.ds[e.i]
    /\ \A d \in DaemonIds :
          Constructed(d) /\ d \notin Members(pen.ds) => ~dstop[d] /\ dpc[d] # "done"

\* The pen's collection changes only when a Start assigns it, and it becomes
\* exactly the cells that Start call allocated (the newest ones); no step
\* changes the stop flag of a daemon outside the collection.
C20_PenStep ==
    /\ pen' # pen =>
          \E c \in Callers :
              /\ cpc[c] = "startAssign"
              /\ pen'.set
              /\ pen'.ds = [i \in 1..Len(cop[c].specs) |-> nd - Len(cop[c].specs) + i]
    /\ \A d \in DaemonIds : d \notin Members(pen'.ds) => dstop'[d] = dstop[d]

\* C20: after a second Start without a Shutdown in between, the pen holds
\* only the daemons of the most recent Start; the Run loops of the earlier
\* set go on, and every later Restart or Shutdown visits, signals and waits
\* on daemons of the most recent set only.
C20_EarlierSetOrphaned == []C20_OnlyLatestSet /\ [][C20_PenStep]_vars

\* C20 witness: two Starts of one daemon each; the first daemon's process is
\* still running while a Restart or Shutdown has signalled the second's.
C20_Witness ==
    /\ pen.ds = <<2>>
    /\ Constructed(1)
    /\ dcmd[1] # NoPid
    /\ procs[dcmd[1]].state = "running"
    /\ dpc[1] = "waitRet"
    /\ cpc["c1"] \in {"unlock", "shutdownWaitRet"}
    /\ \E k \in 1..Len(ctrace["c1"]) :
          ctrace["c1"][k].kind = "Signal" /\ ctrace["c1"][k].pid[1] = 2

\* C11: when RunProc returns, both logOutput goroutines it started have seen
\* their stream closed: neither is still reading or holding a line to forward.
C11_StreamersDoneAtReturn ==
    ppc = "return" => \A s \in Streams : spc[s] \in {"unborn", "done"}

\* `a` is an initial part of `b`.
IsPrefix(a, b) == Len(a) <= Len(b) /\ a = SubSeq(b, 1, Len(a))

\* C12: every line the process writes to stdout reaches log.Say and every line
\* written to stderr reaches log.Warn, one call per line, in the order written,
\* and no line reaches the other sink.
C12_EveryLineDelivered ==
    \A s \in Streams :
        /\ IsPrefix(sunk[SinkOf(s)], written[s])
        /\ spc[s] = "done" => sunk[SinkOf(s)] = written[s]

\* The processes of the daemon followed step by step that are running.
OwnLive == {k \in Attempts : tprocs[k].state = "running"}

\* The first pass through the loop does not sleep.
C13_FirstNotDelayed ==
    tattempts = 0 => tpc # "sleep" /\ tsleep = 0

\* A launch attempt is made only when MinRestart has passed since lastStart.
C13_LaunchStep ==
    tattempts' = tattempts + 1 => tsince = MinRestart

\* C13: two consecutive launch attempts of a daemon (lastStart = time.Now())
\* are at least MinRestart apart, whatever ended the earlier one, and the
\* first attempt is made without sleeping.
C13_LaunchesThrottled == []C13_FirstNotDelayed /\ [][C13_LaunchStep]_vars

\* C13 witness: the second attempt has just been made after the first one's
\* process exited with a failure, and a third pass follows a start failure.
C13_Witness ==
    /\ tattempts = 2
    /\ tpc = "shout"
    /\ tlast = "startErr"
    /\ tprocs[1].state = "exited"
    /\ tfails = 2

\* C14: for a daemon whose command exits at once with a failure, each header
\* marker of the Run loop is logged at least MinRestart after the one before.
C14_HeadersSpaced ==
    [][theaders' = theaders + 1 /\ theaders >= 1 /\ tlast = "exitErr"
          => thsince = MinRestart]_vars

\* C15: a Restart called while the daemon has no running process returns at
\* once: it does not go on to log a header and send a signal.
C15_RestartWithoutProcess ==
    [][kpc = "idle" /\ kcalls' = kcalls + 1 /\ kop'.name = "Restart" /\ OwnLive = {}
          => kpc' = "idle"]_vars

\* Every failure met has been shouted once (the latest is about to be), and
\* the loop has ended only with the stop flag set.
C16_OneShoutEach ==
    /\ tfails = tshouts + (IF tpc = "shout" THEN 1 ELSE 0)
    /\ tpc = "done" => tstop

\* After a failure another launch attempt is made (the loop arrives just
\* past lastStart = time.Now()) unless the stop flag is set.
C16_Retried ==
    (tpc = "shout" /\ tattempts < MaxAttempts) ~> (tpc = "stdoutPipe" \/ tstop)

\* C16: a pipe failure, start failure or failed Wait is shouted exactly once
\* and never ends the Run loop; while the stop flag is unset the loop goes on
\* to another launch attempt.
C16_FailuresRetried == []C16_OneShoutEach /\ C16_Retried

\* C16 witness: two attempts failed, each shouted, and the loop is on its way
\* to the next.
C16_Witness ==
    /\ tattempts = 2
    /\ tfails = 2
    /\ tshouts = 2
    /\ tpc = "since"
    /\ ~tstop

C18_StopState ==
    /\ kcalls = 0 => ~tstop
    /\ tpc = "done" => tstop

C18_StopStep ==
    /\ tstop => tstop'
    /\ tstop' # tstop => kpc = "idle" /\ kpc' = "shutTest" /\ kop'.name = "Shutdown"
    /\ tpc = "loop" /\ tstop /\ tpc' # tpc => tpc' = "done"
    /\ tpc = "done" =>
          /\ tpc' = "done"
          /\ tattempts' = tattempts
          /\ \A k \in Attempts : tprocs[k].state = "none" => tprocs'[k].state = "none"

\* C18: the stop flag is false at construction, only Shutdown sets it, and
\* once true it stays true; when the Run loop finds it set at the loop head,
\* Run returns and makes no further launch attempt.
C18_StopMonotone == []C18_StopState /\ [][C18_StopStep]_vars

\* C18 witness: the Run loop has returned after at least one attempt.
C18_Witness ==
    /\ tpc = "done"
    /\ tstop
    /\ tattempts >= 1

\* C19: once a call of Shutdown on the daemon has returned, the daemon has no
\* running process (none is left over and none is started).
C19_NothingAfterShutdown ==
    kdown => OwnLive = {}

====
